---- MODULE Spec2Model ----
(***************************************************************************)
(* Model of the "hapit" chaincode (chaincode/hapit/go/hapit.go): a record  *)
(* handler that dispatches six operations by function name against the     *)
(* ledger's key-value state.                                               *)
(*                                                                         *)
(* Go strings and byte slices are strings of the model, read and built     *)
(* character by character (Len, Head, Tail, SubSeq and \o), so that JSON   *)
(* encoding, JSON decoding, key comparison and the hand-built array text   *)
(* of queryAllHabits are computed the way the code computes them.          *)
(***************************************************************************)
EXTENDS Integers, Sequences, FiniteSets, TLC

(***************************************************************************)
(* Bounds of the model.                                                    *)
(***************************************************************************)
\* number of invocations in one behaviour
MaxOps == 3

(***************************************************************************)
(* Characters and byte-wise ordering.                                      *)
(***************************************************************************)
Quote == "\""
Backslash == "\\"

\* the characters the model uses, in increasing byte (ASCII) order
Alphabet ==
    " " \o Quote \o ",.0123456789:<ABCDEFGHIJKLMNOPQRSTUVWXYZ[" \o Backslash
    \o "]abcdefghijklmnopqrstuvwxyz{}"

At(s, i) == SubSeq(s, i, i)

Ord(c) == CHOOSE i \in 1..Len(Alphabet) : At(Alphabet, i) = c

\* Go's string comparison a < b: byte-wise lexicographic
RECURSIVE StrLess(_, _)
StrLess(a, b) ==
    IF b = "" THEN FALSE
    ELSE IF a = "" THEN TRUE
    ELSE IF Head(a) = Head(b) THEN StrLess(Tail(a), Tail(b))
    ELSE Ord(Head(a)) < Ord(Head(b))

StrLeq(a, b) == a = b \/ StrLess(a, b)

\* strings.Contains
Contains(s, sub) ==
    \E i \in 1..(Len(s) - Len(sub) + 1) : SubSeq(s, i, i + Len(sub) - 1) = sub

Digits == "0123456789"

\* strconv.Itoa for i >= 0
RECURSIVE Itoa(_)
Itoa(i) == IF i < 10 THEN At(Digits, i + 1)
           ELSE Itoa(i \div 10) \o At(Digits, (i % 10) + 1)

(***************************************************************************)
(* The two record shapes.  A Go slice is nil or a sequence; json tells the *)
(* two apart (null against []), so the model does too.                     *)
(***************************************************************************)
NilSlice == [isNil |-> TRUE, elems |-> <<>>]
Slice(elems) == [isNil |-> FALSE, elems |-> elems]

\* Go's append(s, x): the result is never nil
GoAppend(s, x) == [isNil |-> FALSE, elems |-> Append(s.elems, x)]

Habit(name, type, attendees, owner) ==
    [Name |-> name, Type |-> type, Attendees |-> attendees, Owner |-> owner]

\* Habit{}: the zero value
ZeroHabit == Habit("", "", NilSlice, "")

Person(name, age) == [Name |-> name, Age |-> age]

(***************************************************************************)
(* encoding/json: Marshal.                                                 *)
(***************************************************************************)
\* a JSON string body: the quote and the backslash get a backslash, and the
\* encoder's HTML escaping writes the less-than sign as \u003c
RECURSIVE EscapeString(_)
EscapeString(s) ==
    IF s = "" THEN ""
    ELSE LET c == Head(s)
             e == IF c = Quote \/ c = Backslash THEN Backslash \o c
                  ELSE IF c = "<" THEN Backslash \o "u003c"
                  ELSE c
         IN e \o EscapeString(Tail(s))

MarshalString(s) == Quote \o EscapeString(s) \o Quote

RECURSIVE JoinStrings(_)
JoinStrings(ss) ==
    IF ss = <<>> THEN ""
    ELSE IF Len(ss) = 1 THEN MarshalString(ss[1])
    ELSE MarshalString(ss[1]) \o "," \o JoinStrings(Tail(ss))

\* a nil slice encodes as null, any other as an array
MarshalSlice(sl) ==
    IF sl.isNil THEN "null" ELSE "[" \o JoinStrings(sl.elems) \o "]"

\* "<tag>": with the json tag of the struct field
Member(tag) == Quote \o tag \o Quote \o ":"

\* json.Marshal of a Habit: the fields in declaration order
MarshalHabit(h) ==
    "{" \o Member("name") \o MarshalString(h.Name)
    \o "," \o Member("type") \o MarshalString(h.Type)
    \o "," \o Member("attendees") \o MarshalSlice(h.Attendees)
    \o "," \o Member("owner") \o MarshalString(h.Owner)
    \o "}"

\* json.Marshal of a Person
MarshalPerson(p) ==
    "{" \o Member("name") \o MarshalString(p.Name)
    \o "," \o Member("age") \o Itoa(p.Age)
    \o "}"

(***************************************************************************)
(* encoding/json: Unmarshal into a Habit.  The decoder reads an object     *)
(* whose members are strings, numbers, null or arrays of strings: the      *)
(* shapes Marshal writes for the two record kinds.                         *)
(***************************************************************************)
ParseFail == [ok |-> FALSE, kind |-> "none", val |-> "", next |-> 0]

\* the body of a JSON string from position i, up to its closing quote
RECURSIVE ScanString(_, _, _)
ScanString(t, i, acc) ==
    IF i > Len(t) THEN ParseFail
    ELSE IF At(t, i) = Quote
         THEN [ok |-> TRUE, kind |-> "string", val |-> acc, next |-> i + 1]
    ELSE IF At(t, i) = Backslash
         THEN IF i + 1 > Len(t) THEN ParseFail
              ELSE IF At(t, i + 1) = Quote \/ At(t, i + 1) = Backslash
                   THEN ScanString(t, i + 2, acc \o At(t, i + 1))
              ELSE IF i + 5 <= Len(t) /\ SubSeq(t, i + 1, i + 5) = "u003c"
                   THEN ScanString(t, i + 6, acc \o "<")
              ELSE ParseFail
    ELSE ScanString(t, i + 1, acc \o At(t, i))

ParseString(t, i) ==
    IF i <= Len(t) /\ At(t, i) = Quote THEN ScanString(t, i + 1, "") ELSE ParseFail

IsDigit(c) == \E d \in 1..Len(Digits) : At(Digits, d) = c

RECURSIVE ScanNumber(_, _, _)
ScanNumber(t, i, acc) ==
    IF i <= Len(t) /\ IsDigit(At(t, i)) THEN ScanNumber(t, i + 1, acc \o At(t, i))
    ELSE [ok |-> TRUE, kind |-> "number", val |-> acc, next |-> i]

\* the elements of an array of strings, from the element at position i
RECURSIVE ScanArray(_, _, _)
ScanArray(t, i, acc) ==
    LET e == ParseString(t, i)
    IN IF ~e.ok \/ e.next > Len(t) THEN ParseFail
       ELSE IF At(t, e.next) = "]"
            THEN [ok |-> TRUE, kind |-> "array", val |-> Append(acc, e.val),
                  next |-> e.next + 1]
       ELSE IF At(t, e.next) = ","
            THEN ScanArray(t, e.next + 1, Append(acc, e.val))
       ELSE ParseFail

ParseValue(t, i) ==
    IF i > Len(t) THEN ParseFail
    ELSE IF At(t, i) = Quote THEN ParseString(t, i)
    ELSE IF At(t, i) = "["
         THEN IF i + 1 <= Len(t) /\ At(t, i + 1) = "]"
              THEN [ok |-> TRUE, kind |-> "array", val |-> <<>>, next |-> i + 2]
              ELSE ScanArray(t, i + 1, <<>>)
    ELSE IF i + 3 <= Len(t) /\ SubSeq(t, i, i + 3) = "null"
         THEN [ok |-> TRUE, kind |-> "null", val |-> "", next |-> i + 4]
    ELSE IF IsDigit(At(t, i)) THEN ScanNumber(t, i, "")
    ELSE ParseFail

\* the members of an object, from the member at position i; the object has
\* to end the text
RECURSIVE ScanMembers(_, _, _)
ScanMembers(t, i, acc) ==
    LET k == ParseString(t, i)
    IN IF ~k.ok \/ k.next > Len(t) \/ At(t, k.next) # ":" THEN ParseFail
       ELSE LET v == ParseValue(t, k.next + 1)
                m == [key |-> k.val, kind |-> v.kind, val |-> v.val]
            IN IF ~v.ok \/ v.next > Len(t) THEN ParseFail
               ELSE IF At(t, v.next) = "}"
                    THEN IF v.next = Len(t)
                         THEN [ok |-> TRUE, kind |-> "object",
                               val |-> Append(acc, m), next |-> v.next + 1]
                         ELSE ParseFail
               ELSE IF At(t, v.next) = ","
                    THEN ScanMembers(t, v.next + 1, Append(acc, m))
               ELSE ParseFail

ParseObject(t) ==
    IF Len(t) < 2 \/ Head(t) # "{" THEN ParseFail
    ELSE IF t = "{}"
         THEN [ok |-> TRUE, kind |-> "object", val |-> <<>>, next |-> 3]
    ELSE ScanMembers(t, 2, <<>>)

\* one member stored into the struct: a string field takes a string, the
\* slice takes an array or null (null makes it nil); null leaves a string
\* field alone, and so do a value of another kind and an unknown key
SetField(h, m) ==
    IF m.key = "name" /\ m.kind = "string" THEN [h EXCEPT !.Name = m.val]
    ELSE IF m.key = "type" /\ m.kind = "string" THEN [h EXCEPT !.Type = m.val]
    ELSE IF m.key = "owner" /\ m.kind = "string" THEN [h EXCEPT !.Owner = m.val]
    ELSE IF m.key = "attendees" /\ m.kind = "array"
         THEN [h EXCEPT !.Attendees = Slice(m.val)]
    ELSE IF m.key = "attendees" /\ m.kind = "null"
         THEN [h EXCEPT !.Attendees = NilSlice]
    ELSE h

RECURSIVE SetFields(_, _)
SetFields(h, ms) == IF ms = <<>> THEN h ELSE SetFields(SetField(h, Head(ms)), Tail(ms))

\* json.Unmarshal(data, &habit) with its error dropped: text that is no
\* JSON (the empty bytes of an absent key) leaves habit as it was
Unmarshal(data, habit) ==
    LET p == ParseObject(data)
    IN IF p.ok THEN SetFields(habit, p.val) ELSE habit

(***************************************************************************)
(* The ledger's key-value state, as the stub shows it to the chaincode.    *)
(* A state is a function from the keys that hold a value to their bytes.   *)
(***************************************************************************)
Nil == ""

\* GetState: the bytes at key, nil when the key holds nothing
GetState(st, key) == IF key \in DOMAIN st THEN st[key] ELSE Nil

\* PutState: last write wins
PutState(st, key, value) ==
    [k \in DOMAIN st \cup {key} |-> IF k = key THEN value ELSE st[k]]

RECURSIVE SortKeys(_)
SortKeys(ks) ==
    IF ks = {} THEN <<>>
    ELSE LET m == CHOOSE k \in ks : \A o \in ks : StrLeq(k, o)
         IN <<m>> \o SortKeys(ks \ {m})

KV(st, ks) == [i \in 1..Len(ks) |-> [Key |-> ks[i], Value |-> st[ks[i]]]]

\* GetStateByRange: the entries with startKey <= key < endKey in key order
GetStateByRange(st, startKey, endKey) ==
    KV(st, SortKeys({k \in DOMAIN st : StrLeq(startKey, k) /\ StrLess(k, endKey)}))

\* the stub of one invocation: the state it works on and the calls made
NewStub(st) == [state |-> st, calls |-> <<>>]
Called(stub, op, key) == [stub EXCEPT !.calls = Append(@, [op |-> op, key |-> key])]
StubPut(stub, key, value) ==
    [state |-> PutState(stub.state, key, value),
     calls |-> Append(stub.calls, [op |-> "PutState", key |-> key])]

\* shim.Success and shim.Error
Success(payload) == [status |-> "OK", message |-> "", payload |-> payload]
Error(msg) == [status |-> "ERROR", message |-> msg, payload |-> Nil]

Result(resp, stub) == [response |-> resp, state |-> stub.state, calls |-> stub.calls]

(***************************************************************************)
(* The handlers.  Each takes the state the invocation starts from and      *)
(* gives the response, the state it leaves and the stub calls it made.     *)
(* Go indexes args from 0, the model from 1.                               *)
(***************************************************************************)
\* "HABIT"+strconv.Itoa(i) and "PERSON"+strconv.Itoa(j)
HabitKey(i) == "HABIT" \o Itoa(i)
PersonKey(j) == "PERSON" \o Itoa(j)

\* the habits literal of initLedger
SeedHabits ==
    << Habit("Running", "Health", Slice(<<"Ruby", "Kathy">>), "Kathy"),
       Habit("English", "Learning", Slice(<<"Kathy">>), "Kathy"),
       Habit("Workout", "Health", Slice(<<"Kimi", "Rocky">>), "Kimi"),
       Habit("bark", "Nature", Slice(<<"Ruby", "Rocky">>), "Rocky"),
       Habit("Blockchain", "Learning", Slice(<<"Kimi", "Ruby", "Rocky">>), "Kimi") >>

\* the people literal of initLedger
SeedPeople ==
    << Person("Kimi", 29), Person("Kathy", 28), Person("Ruby", 5), Person("Rocky", 3) >>

\* the messages of the handlers
IncorrectArgs(n) == "Incorrect number of arguments. Expecting " \o n
InvalidFunction == "Invalid Smart Contract function name."

queryHabit(st, args) ==
    IF Len(args) # 1 THEN Result(Error(IncorrectArgs("1")), NewStub(st))
    ELSE LET stub == Called(NewStub(st), "GetState", args[1])
             carAsBytes == GetState(st, args[1])
         IN Result(Success(carAsBytes), stub)

\* json.Marshal(habits[i]) and json.Marshal(people[j]) for every index
SeedHabitBytes == [i \in 1..Len(SeedHabits) |-> MarshalHabit(SeedHabits[i])]
SeedPersonBytes == [j \in 1..Len(SeedPeople) |-> MarshalPerson(SeedPeople[j])]

\* mutant of PutHabits: the loop stops one habit short
RECURSIVE PutHabits_OffByOne(_, _)
PutHabits_OffByOne(stub, i) ==
    IF i < Len(SeedHabits) - 1
    THEN PutHabits_OffByOne(StubPut(stub, HabitKey(i), SeedHabitBytes[i + 1]), i + 1)
    ELSE stub

\* the first loop of initLedger, from index i
RECURSIVE PutHabits(_, _)
PutHabits(stub, i) ==
    IF i < Len(SeedHabits)
    THEN PutHabits(StubPut(stub, HabitKey(i), SeedHabitBytes[i + 1]), i + 1)
    ELSE stub

\* the second loop of initLedger, from index j
RECURSIVE PutPeople(_, _)
PutPeople(stub, j) ==
    IF j < Len(SeedPeople)
    THEN PutPeople(StubPut(stub, PersonKey(j), SeedPersonBytes[j + 1]), j + 1)
    ELSE stub

\* mutant of initLedger: the seeding starts from an empty state
initLedger_Fresh(st) ==
    Result(Success(Nil), PutPeople(PutHabits(NewStub([k \in {} |-> Nil]), 0), 0))

initLedger(st) == Result(Success(Nil), PutPeople(PutHabits(NewStub(st), 0), 0))

\* mutant of createHabit: the attendee is taken from the owner's position
createHabit_WrongIndex(st, args) ==
    IF Len(args) # 5 THEN Result(Error(IncorrectArgs("5")), NewStub(st))
    ELSE LET attendees == Slice(<<args[5]>>)
             habit == Habit(args[2], args[3], attendees, args[5])
             habitAsBytes == MarshalHabit(habit)
         IN Result(Success(Nil), StubPut(NewStub(st), args[1], habitAsBytes))

\* mutant of createHabit: only too few arguments are rejected
createHabit_AtLeast(st, args) ==
    IF Len(args) < 5 THEN Result(Error(IncorrectArgs("5")), NewStub(st))
    ELSE LET attendees == Slice(<<args[4]>>)
             habit == Habit(args[2], args[3], attendees, args[5])
             habitAsBytes == MarshalHabit(habit)
         IN Result(Success(Nil), StubPut(NewStub(st), args[1], habitAsBytes))

createHabit(st, args) ==
    IF Len(args) # 5 THEN Result(Error(IncorrectArgs("5")), NewStub(st))
    ELSE LET attendees == Slice(<<args[4]>>)
             habit == Habit(args[2], args[3], attendees, args[5])
             habitAsBytes == MarshalHabit(habit)
         IN Result(Success(Nil), StubPut(NewStub(st), args[1], habitAsBytes))

startKey == "HABIT0"
endKey == "HABIT999"

\* one array member of queryAllHabits: the key is written as it is,
\* between quotes, and the stored bytes as they are
ArrayMember(kv) ==
    "{" \o Quote \o "Key" \o Quote \o ":" \o Quote \o kv.Key \o Quote
    \o ", " \o Quote \o "Record" \o Quote \o ":" \o kv.Value \o "}"

\* mutant of WriteMembers: the comma is written before the first member too
RECURSIVE WriteMembers_LeadingComma(_, _, _)
WriteMembers_LeadingComma(entries, buffer, bArrayMemberAlreadyWritten) ==
    IF entries = <<>> THEN buffer
    ELSE WriteMembers_LeadingComma(Tail(entries),
                                   buffer \o "," \o ArrayMember(Head(entries)),
                                   TRUE)

\* the loop of queryAllHabits over the entries the iterator still holds
RECURSIVE WriteMembers(_, _, _)
WriteMembers(entries, buffer, bArrayMemberAlreadyWritten) ==
    IF entries = <<>> THEN buffer
    ELSE WriteMembers(Tail(entries),
                      buffer \o (IF bArrayMemberAlreadyWritten THEN "," ELSE "")
                             \o ArrayMember(Head(entries)),
                      TRUE)

\* fault is what the ledger does to the scan: "none", "range" (the scan
\* cannot be opened) or "next" (advancing the iterator fails)
queryAllHabits(st, fault) ==
    LET opened == Called(NewStub(st), "GetStateByRange", startKey)
        entries == GetStateByRange(st, startKey, endKey)
        closed == Called(opened, "Close", startKey)
    IN IF fault = "range" THEN Result(Error("range scan failed"), opened)
       ELSE IF fault = "next" /\ entries # <<>>
            THEN Result(Error("iterator failed"), closed)
       ELSE Result(Success(WriteMembers(entries, "[", FALSE) \o "]"), closed)

\* mutant of changeHabitOwner: the record read is not decoded
changeHabitOwner_NoDecode(st, args) ==
    IF Len(args) # 2 THEN Result(Error(IncorrectArgs("2")), NewStub(st))
    ELSE LET read == Called(NewStub(st), "GetState", args[1])
             habit == [ZeroHabit EXCEPT !.Owner = args[2]]
         IN Result(Success(Nil), StubPut(read, args[1], MarshalHabit(habit)))

\* mutant of changeHabitOwner: an owner that does not change is not written
changeHabitOwner_SkipSame(st, args) ==
    IF Len(args) # 2 THEN Result(Error(IncorrectArgs("2")), NewStub(st))
    ELSE LET read == Called(NewStub(st), "GetState", args[1])
             habitAsBytes == GetState(st, args[1])
             decoded == Unmarshal(habitAsBytes, ZeroHabit)
             habit == [decoded EXCEPT !.Owner = args[2]]
         IN IF decoded.Owner = args[2] THEN Result(Success(Nil), read)
            ELSE Result(Success(Nil), StubPut(read, args[1], MarshalHabit(habit)))

changeHabitOwner(st, args) ==
    IF Len(args) # 2 THEN Result(Error(IncorrectArgs("2")), NewStub(st))
    ELSE LET read == Called(NewStub(st), "GetState", args[1])
             habitAsBytes == GetState(st, args[1])
             habit == [Unmarshal(habitAsBytes, ZeroHabit) EXCEPT !.Owner = args[2]]
         IN Result(Success(Nil), StubPut(read, args[1], MarshalHabit(habit)))

\* mutant of changeHabitAttendees: the new attendee replaces the others
changeHabitAttendees_Replace(st, args) ==
    IF Len(args) # 2 THEN Result(Error(IncorrectArgs("2")), NewStub(st))
    ELSE LET read == Called(NewStub(st), "GetState", args[1])
             habitAsBytes == GetState(st, args[1])
             decoded == Unmarshal(habitAsBytes, ZeroHabit)
             habit == [decoded EXCEPT !.Attendees = Slice(<<args[2]>>)]
         IN Result(Success(Nil), StubPut(read, args[1], MarshalHabit(habit)))

changeHabitAttendees(st, args) ==
    IF Len(args) # 2 THEN Result(Error(IncorrectArgs("2")), NewStub(st))
    ELSE LET read == Called(NewStub(st), "GetState", args[1])
             habitAsBytes == GetState(st, args[1])
             decoded == Unmarshal(habitAsBytes, ZeroHabit)
             attendees == GoAppend(decoded.Attendees, args[2])
             habit == [decoded EXCEPT !.Attendees = attendees]
         IN Result(Success(Nil), StubPut(read, args[1], MarshalHabit(habit)))

\* mutant of Invoke: the name of queryHabit is matched whatever its case
Invoke_FoldCase(st, fn, a, fault) ==
    IF fn \in {"queryHabit", "QueryHabit", "queryhabit"} THEN queryHabit(st, a)
    ELSE IF fn = "initLedger" THEN initLedger(st)
    ELSE IF fn = "createHabit" THEN createHabit(st, a)
    ELSE IF fn = "queryAllHabits" THEN queryAllHabits(st, fault)
    ELSE IF fn = "changeHabitOwner" THEN changeHabitOwner(st, a)
    ELSE IF fn = "changeHabitAttendees" THEN changeHabitAttendees(st, a)
    ELSE Result(Error(InvalidFunction), NewStub(st))

\* Invoke: route by the function name
Invoke(st, fn, a, fault) ==
    IF fn = "queryHabit" THEN queryHabit(st, a)
    ELSE IF fn = "initLedger" THEN initLedger(st)
    ELSE IF fn = "createHabit" THEN createHabit(st, a)
    ELSE IF fn = "queryAllHabits" THEN queryAllHabits(st, fault)
    ELSE IF fn = "changeHabitOwner" THEN changeHabitOwner(st, a)
    ELSE IF fn = "changeHabitAttendees" THEN changeHabitAttendees(st, a)
    ELSE Result(Error(InvalidFunction), NewStub(st))

(***************************************************************************)
(* The state machine: the ledger state and the last invocation.            *)
(***************************************************************************)
VARIABLES
    store,      \* the key-value state
    before,     \* the key-value state the last invocation started from
    entry,      \* the entry point that ran last: "Init" or "Invoke"
    function,   \* the function name of the last invocation
    args,       \* its arguments
    response,   \* its response
    calls,      \* the stub calls it made, in order
    lastWrite,  \* the function name of the last invocation that wrote
    nops        \* the number of invocations so far

vars == <<store, before, entry, function, args, response, calls, lastWrite, nops>>

\* keys the invocations are tried with: a habit key the seeding writes, two
\* it does not write, and the end key of the scan
KeyPool == {"HABIT1", "HABIT5", "HABIT10", "HABIT999"}

\* a string that needs every escape of the encoder
Tricky == "a" \o Quote \o Backslash \o "<"
StrPool == {"", Tricky}
\* name, type, firstAttendee and owner of the habits created
HabitPool == {<<"Yoga", "Health", "Amy", "Kathy">>, <<Tricky, "", "", Tricky>>}

FunctionNames == {"queryHabit", "initLedger", "createHabit", "queryAllHabits",
                  "changeHabitOwner", "changeHabitAttendees"}
OtherNames == {"", "QueryHabit"}
Faults == {"none", "range", "next"}

\* the argument lists of length n
ArgLists(n) ==
    IF n = 0 THEN {<<>>}
    ELSE IF n = 1 THEN {<<k>> : k \in KeyPool}
    ELSE IF n = 2 THEN {<<k, x>> : k \in KeyPool, x \in StrPool}
    ELSE IF n = 5 THEN {<<k>> \o h : k \in KeyPool, h \in HabitPool}
    ELSE {[i \in 1..n |-> "Amy"]}

\* the Init entry point: nothing is written
Init ==
    /\ store = [k \in {} |-> Nil]
    /\ before = [k \in {} |-> Nil]
    /\ entry = "Init"
    /\ function = ""
    /\ args = <<>>
    /\ response = Success(Nil)
    /\ calls = <<>>
    /\ lastWrite = ""
    /\ nops = 0

\* the calls of an invocation hold a PutState
Wrote(cs) == \E i \in 1..Len(cs) : cs[i].op = "PutState"

\* one Invoke of fn with arguments a; r is its result
DoInvoke(fn, a, fault) ==
    /\ nops < MaxOps
    /\ \E r \in {Invoke(store, fn, a, fault)} :
        /\ store' = r.state
        /\ before' = store
        /\ entry' = "Invoke"
        /\ function' = fn
        /\ args' = a
        /\ response' = r.response
        /\ calls' = r.calls
        /\ lastWrite' = IF Wrote(r.calls) THEN fn ELSE lastWrite
        /\ nops' = nops + 1

\* the invocations, by function name, with right and wrong argument counts
QueryHabit ==
    \E n \in {0, 1} : \E a \in ArgLists(n) : DoInvoke("queryHabit", a, "none")

InitLedger ==
    \E n \in {0, 1} : \E a \in ArgLists(n) : DoInvoke("initLedger", a, "none")

CreateHabit ==
    \E n \in {4, 5, 6} : \E a \in ArgLists(n) : DoInvoke("createHabit", a, "none")

QueryAllHabits ==
    \E f \in Faults : DoInvoke("queryAllHabits", <<>>, f)

ChangeHabitOwner ==
    \E n \in {0, 2, 3} : \E a \in ArgLists(n) : DoInvoke("changeHabitOwner", a, "none")

ChangeHabitAttendees ==
    \E n \in {0, 2, 3} : \E a \in ArgLists(n) :
          DoInvoke("changeHabitAttendees", a, "none")

\* a function name that is none of the six
OtherFunction ==
    \E fn \in OtherNames : \E n \in {0, 3} : \E a \in ArgLists(n) :
          DoInvoke(fn, a, "none")

Next ==
    \/ QueryHabit
    \/ InitLedger
    \/ CreateHabit
    \/ QueryAllHabits
    \/ ChangeHabitOwner
    \/ ChangeHabitAttendees
    \/ OtherFunction

Spec == Init /\ [][Next]_vars

(***************************************************************************)
(* Vocabulary of the properties.                                           *)
(***************************************************************************)
Invoked(fn) == entry = "Invoke" /\ function = fn
Succeeded(fn) == Invoked(fn) /\ response.status = "OK"

\* the Habit some bytes decode to
Decode(bytes) == Unmarshal(bytes, ZeroHabit)

\* bytes that are the encoding of a Habit
IsHabit(bytes) == bytes = MarshalHabit(Decode(bytes))

\* what a queryHabit of key k returns in the current state
Query(k) == queryHabit(store, <<k>>).response

\* the keys other than k hold in s2 what they hold in s1
SameElsewhere(s1, s2, k) ==
    /\ DOMAIN s1 \ {k} = DOMAIN s2 \ {k}
    /\ \A o \in DOMAIN s1 \ {k} : s2[o] = s1[o]

NumCalls(op) == Cardinality({i \in 1..Len(calls) : calls[i].op = op})
KeysWritten == {calls[i].key : i \in {j \in 1..Len(calls) : calls[j].op = "PutState"}}

(***************************************************************************)
(* C1: after a createHabit of [k, name, type, firstAttendee, owner] that   *)
(* succeeds, queryHabit of [k] succeeds with a payload that decodes to the *)
(* Habit {name, type, [firstAttendee], owner}, whatever k held before.     *)
(***************************************************************************)
C1_CreateThenQuery ==
    Succeeded("createHabit") =>
        /\ Query(args[1]).status = "OK"
        /\ Decode(Query(args[1]).payload)
             = Habit(args[2], args[3], Slice(<<args[4]>>), args[5])
        /\ IsHabit(Query(args[1]).payload)

\* a habit with strings that need escaping replaces another value at its key
C1_Witness ==
    /\ Succeeded("createHabit")
    /\ args[2] = Tricky
    /\ args[1] \in DOMAIN before
    /\ before[args[1]] # store[args[1]]

(***************************************************************************)
(* C2: changeHabitAttendees of [k, y] on a key that holds a Habit with     *)
(* attendees A leaves at k the same name, type and owner and the attendees *)
(* A followed by y; a second call with z leaves A followed by y, z.        *)
(***************************************************************************)
C2_AppendsLast ==
    (Succeeded("changeHabitAttendees") /\ IsHabit(GetState(before, args[1]))) =>
        LET k == args[1]
            old == Decode(before[k])
            new == Decode(store[k])
        IN /\ IsHabit(store[k])
           /\ new = [old EXCEPT !.Attendees = Slice(old.Attendees.elems \o <<args[2]>>)]
           /\ \A z \in StrPool :
                LET again == changeHabitAttendees(store, <<k, z>>)
                IN /\ again.response.status = "OK"
                   /\ Decode(again.state[k])
                        = [old EXCEPT !.Attendees =
                             Slice(old.Attendees.elems \o <<args[2], z>>)]

\* the second of two appends in a row to a habit that had an attendee, with
\* an attendee that is already there
C2_Witness ==
    /\ Succeeded("changeHabitAttendees")
    /\ IsHabit(GetState(before, args[1]))
    /\ Len(Decode(store[args[1]]).Attendees.elems) = 3
    /\ Decode(store[args[1]]).Attendees.elems[2] = args[2]

(***************************************************************************)
(* C3: changeHabitOwner of [k, x] on a key that holds a Habit h leaves a   *)
(* record that queryHabit returns with owner x and the name, type and      *)
(* attendees of h, and leaves every other key as it was.                   *)
(***************************************************************************)
C3_OwnerOnly ==
    (Succeeded("changeHabitOwner") /\ IsHabit(GetState(before, args[1]))) =>
        /\ Query(args[1]).status = "OK"
        /\ IsHabit(Query(args[1]).payload)
        /\ Decode(Query(args[1]).payload) = [Decode(before[args[1]]) EXCEPT !.Owner = args[2]]
        /\ SameElsewhere(before, store, args[1])

\* the owner of a habit with two attendees changes while other keys hold values
C3_Witness ==
    /\ Succeeded("changeHabitOwner")
    /\ IsHabit(GetState(before, args[1]))
    /\ Len(Decode(before[args[1]]).Attendees.elems) = 2
    /\ Decode(before[args[1]]).Owner # args[2]
    /\ Cardinality(DOMAIN store) > 1

(***************************************************************************)
(* C4: a mutating operation invoked with a wrong number of arguments       *)
(* (initLedger counted as taking none) returns an error whose message      *)
(* contains "Incorrect number of arguments" and writes nothing.            *)
(***************************************************************************)
Rejected ==
    /\ response.status = "ERROR"
    /\ Contains(response.message, "Incorrect number of arguments")
    /\ NumCalls("PutState") = 0
    /\ store = before

WrongCountChecked ==
    \/ Invoked("createHabit") /\ Len(args) # 5
    \/ Invoked("changeHabitOwner") /\ Len(args) # 2
    \/ Invoked("changeHabitAttendees") /\ Len(args) # 2

\* C4 as stated: initLedger with arguments is rejected too
C4_Original ==
    (WrongCountChecked \/ (Invoked("initLedger") /\ Len(args) # 0)) => Rejected

\* C4 as amended: createHabit, changeHabitOwner and changeHabitAttendees
\* reject a wrong number of arguments and write nothing; initLedger does not
\* look at its arguments and succeeds with any
C4_WrongCountRejected ==
    /\ WrongCountChecked => Rejected
    /\ Invoked("initLedger") => response.status = "OK" /\ NumCalls("PutState") > 0

\* a createHabit with one argument too many is rejected over a state that
\* holds values
C4_Witness ==
    /\ Invoked("createHabit")
    /\ Len(args) = 6
    /\ Rejected
    /\ DOMAIN store # {}

(***************************************************************************)
(* The array text queryAllHabits is to return, written from the claims.    *)
(***************************************************************************)
InScan(k) == StrLeq("HABIT0", k) /\ StrLess(k, "HABIT999")
ScanKeys(st) == {k \in DOMAIN st : InScan(k)}

EntryText(k, v) == "{\"Key\":\"" \o k \o "\", \"Record\":" \o v \o "}"

RECURSIVE EntriesText(_)
EntriesText(kvs) ==
    IF kvs = <<>> THEN ""
    ELSE IF Len(kvs) = 1 THEN EntryText(kvs[1].Key, kvs[1].Value)
    ELSE EntryText(kvs[1].Key, kvs[1].Value) \o "," \o EntriesText(Tail(kvs))

ArrayText(kvs) == "[" \o EntriesText(kvs) \o "]"

SeedHabitKeys == {"HABIT0", "HABIT1", "HABIT2", "HABIT3", "HABIT4"}
SeedPersonKeys == {"PERSON0", "PERSON1", "PERSON2", "PERSON3"}

SeedArray ==
    ArrayText([i \in 1..5 |->
                 [Key |-> "HABIT" \o Itoa(i - 1), Value |-> MarshalHabit(SeedHabits[i])]])

\* what a queryAllHabits returns in the current state when the scan works
QueryAll == queryAllHabits(store, "none").response

(***************************************************************************)
(* C5: while initLedger is the last invocation that wrote, whatever was    *)
(* invoked before it, queryAllHabits returns an array of exactly 5         *)
(* objects, with the keys HABIT0..HABIT4 and the seed Habits as Records.   *)
(***************************************************************************)
AfterInitLedger == entry = "Invoke" /\ lastWrite = "initLedger"

\* the response of the queryAllHabits just invoked, or else the one an
\* invocation would get in the current state
Scanned == IF Succeeded("queryAllHabits") THEN response ELSE QueryAll

C5_Original ==
    AfterInitLedger =>
        /\ Scanned.status = "OK"
        /\ Scanned.payload = SeedArray

\* C5 as amended: the array holds one object for every key of the scan
\* interval that holds a value: the five seeded ones, with the seed Habits as
\* Records, and one for every other such key written earlier; it has exactly
\* 5 objects exactly when there is no other such key
C5_SeedsAmongScan ==
    AfterInitLedger =>
        \A q \in {Scanned}, keys \in {ScanKeys(store)},
           scan \in {GetStateByRange(store, "HABIT0", "HABIT999")} :
            /\ q.status = "OK"
            /\ SeedHabitKeys \subseteq keys
            /\ \A i \in 0..4 : Decode(store["HABIT" \o Itoa(i)]) = SeedHabits[i + 1]
            /\ {scan[i].Key : i \in 1..Len(scan)} = keys
            /\ q.payload = ArrayText(scan)
            /\ Len(scan) = 5 + Cardinality(keys \ SeedHabitKeys)
            /\ (keys = SeedHabitKeys) <=> (q.payload = SeedArray)

\* a queryAllHabits after an initLedger that ran in a state where another key
\* of the scan interval held a value
C5_Witness ==
    /\ AfterInitLedger
    /\ Succeeded("queryAllHabits")
    /\ "HABIT10" \in DOMAIN store
    /\ Cardinality(ScanKeys(store)) = 6

(***************************************************************************)
(* C6: initLedger leaves the seed data at HABIT0..HABIT4 and               *)
(* PERSON0..PERSON3 whatever they held, leaves every other key as it was,  *)
(* and a second initLedger changes nothing.                                *)
(***************************************************************************)
C6_InitLedgerIdempotent ==
    Invoked("initLedger") =>
        /\ response.status = "OK"
        /\ \A i \in 0..4 : store["HABIT" \o Itoa(i)] = MarshalHabit(SeedHabits[i + 1])
        /\ \A j \in 0..3 : store["PERSON" \o Itoa(j)] = MarshalPerson(SeedPeople[j + 1])
        /\ DOMAIN store = DOMAIN before \cup SeedHabitKeys \cup SeedPersonKeys
        /\ \A k \in DOMAIN before \ (SeedHabitKeys \cup SeedPersonKeys) :
              store[k] = before[k]
        /\ initLedger(store).state = store

\* the second of two initLedger in a row, over a key that is not seeded
C6_Witness ==
    /\ Invoked("initLedger")
    /\ before = store
    /\ DOMAIN store \ (SeedHabitKeys \cup SeedPersonKeys) # {}

(***************************************************************************)
(* C7: every Habit record in the state has a non-empty owner and           *)
(* attendees that are a sequence and not null.                             *)
(***************************************************************************)
C7_Original ==
    \A k \in DOMAIN store :
        IsHabit(store[k]) =>
            /\ Decode(store[k]).Owner # ""
            /\ ~Decode(store[k]).Attendees.isNil

(***************************************************************************)
(* C8: every successful mutating invocation writes exactly once, reads at  *)
(* most once and writes one key only.                                      *)
(***************************************************************************)
Mutating == {"initLedger", "createHabit", "changeHabitOwner", "changeHabitAttendees"}

C8_Original ==
    (entry = "Invoke" /\ function \in Mutating /\ response.status = "OK") =>
        /\ NumCalls("PutState") = 1
        /\ NumCalls("GetState") <= 1
        /\ Cardinality(KeysWritten) = 1

\* C8 as amended: createHabit writes its key once and reads nothing;
\* changeHabitOwner and changeHabitAttendees read their key once and write it
\* once; initLedger reads nothing and writes nine times, once to each of
\* HABIT0..HABIT4 and PERSON0..PERSON3
C8_ReadsAndWrites ==
    /\ Succeeded("createHabit") =>
          /\ NumCalls("GetState") = 0
          /\ NumCalls("PutState") = 1
          /\ KeysWritten = {args[1]}
    /\ (Succeeded("changeHabitOwner") \/ Succeeded("changeHabitAttendees")) =>
          /\ calls = << [op |-> "GetState", key |-> args[1]],
                        [op |-> "PutState", key |-> args[1]] >>
    /\ Succeeded("initLedger") =>
          /\ NumCalls("GetState") = 0
          /\ NumCalls("PutState") = 9
          /\ KeysWritten = SeedHabitKeys \cup SeedPersonKeys
    /\ (entry = "Invoke" /\ function \in Mutating /\ response.status = "OK") =>
          Len(calls) = NumCalls("GetState") + NumCalls("PutState")

\* a changeHabitOwner that succeeded on a key that held a value
C8_Witness ==
    /\ Succeeded("changeHabitOwner")
    /\ args[1] \in DOMAIN before
    /\ NumCalls("PutState") = 1

(***************************************************************************)
(* C9: a function name that is none of the six, whatever the arguments,    *)
(* gets the invalid-function-name error and leaves the state alone.        *)
(***************************************************************************)
C9_UnknownFunction ==
    (entry = "Invoke" /\ function \notin FunctionNames) =>
        /\ response = Error("Invalid Smart Contract function name.")
        /\ calls = <<>>
        /\ store = before

\* a name that differs from queryHabit in case only, with arguments, over a
\* state that holds values
C9_Witness ==
    /\ Invoked("QueryHabit")
    /\ Len(args) = 3
    /\ response.status = "ERROR"
    /\ DOMAIN store # {}

(***************************************************************************)
(* C10: a queryAllHabits whose scan does not fail returns one {Key,        *)
(* Record} object for every key k with "HABIT0" <= k < "HABIT999" that     *)
(* holds a value, the Record being the value, in the order of the scan;    *)
(* the payload is "[]" when there is no such key; the state is unchanged.  *)
(***************************************************************************)
C10_ScanInterval ==
    Succeeded("queryAllHabits") =>
        LET scan == GetStateByRange(before, "HABIT0", "HABIT999")
        IN /\ {scan[i].Key : i \in 1..Len(scan)} = ScanKeys(before)
           /\ Len(scan) = Cardinality(ScanKeys(before))
           /\ \A i \in 1..Len(scan) : scan[i].Value = before[scan[i].Key]
           /\ response.payload = ArrayText(scan)
           /\ ScanKeys(before) = {} => response.payload = "[]"
           /\ store = before
           /\ NumCalls("PutState") = 0

\* a scan over seeded habits, HABIT10 between them, and keys it leaves out
C10_Witness ==
    /\ Succeeded("queryAllHabits")
    /\ {"HABIT1", "HABIT10", "HABIT2", "PERSON0"} \subseteq DOMAIN store
    /\ Cardinality(ScanKeys(store)) = 6

TypeOK ==
    /\ entry \in {"Init", "Invoke"}
    /\ nops \in 0..MaxOps
    /\ response.status \in {"OK", "ERROR"}

====
